---- MODULE Spec2Model ----
(***************************************************************************)
(* The osmFISH notebook (notebooks/osmFISH.ipynb) as a state machine.      *)
(*                                                                         *)
(* The notebook is a straight-line script: load, filter, filter, reduce,   *)
(* find spots, decode, load the benchmark, compare.  Its statements are    *)
(* the actions of Spec.  The starfish library calls it makes (filters,     *)
(* reduce, LocalMaxPeakFinder, PerRoundMaxChannel) are operators; their    *)
(* code is not part of the notebook, so they follow the design document    *)
(* (sections 4.1 to 4.5 and 7).  Images are bounded integer arrays: a      *)
(* stack maps each (round, channel) tile to NumZ planes of Width pixels.   *)
(***************************************************************************)
EXTENDS Integers, Sequences, FiniteSets, TLC

\* ------------------------------------------------------------------ bounds

NumZ == 2            \* z-planes of a stack (45 in the data set)
Width == 2           \* pixels of a plane (2048 x 2048 in the data set)
MaxVal == 1          \* intensities are 0..MaxVal
MaxLit == 3          \* voxels above 0 in a loaded stack (spots are sparse)
MinDistance == 1     \* min_distance of the peak finder, scaled to Width
MinObjArea == 1      \* min_obj_area of the peak finder, scaled to Width
MaxObjArea == 3      \* max_obj_area of the peak finder, scaled to Width
FinderWidth == 5     \* pixels of an image handed to the peak finder alone
FinderMaxVal == 2    \* its intensities are 0..FinderMaxVal
FinderMaxArea == 3   \* minimum areas tried on it are 1..FinderMaxArea
MaxSpots == 3        \* spots handed to the decoder alone
MaxPeaks == 2        \* benchmark peaks handed to get_benchmark_peaks alone

\* ------------------------------------------------------- program constants

Stringency == 0            \* stringency=0
ExpectedDifference == 41   \* assert spot_difference == 41

\* The data set holds one round and one channel.
TileSeq == << <<0, 0>> >>
Tiles == {TileSeq[i] : i \in DOMAIN TileSeq}

\* ----------------------------------------------------------------- helpers

RECURSIVE SumSeq(_)
SumSeq(s) == IF s = <<>> THEN 0 ELSE Head(s) + SumSeq(Tail(s))

RECURSIVE MaxSeq(_)
MaxSeq(s) ==
    IF Len(s) = 1 THEN Head(s)
    ELSE LET m == MaxSeq(Tail(s)) IN IF Head(s) > m THEN Head(s) ELSE m

RECURSIVE MinSeq(_)
MinSeq(s) ==
    IF Len(s) = 1 THEN Head(s)
    ELSE LET m == MinSeq(Tail(s)) IN IF Head(s) < m THEN Head(s) ELSE m

Clip0(v) == IF v < 0 THEN 0 ELSE v

Clamp(i, lo, hi) == IF i < lo THEN lo ELSE IF i > hi THEN hi ELSE i

Planes(w, m) == [1..w -> 0..m]
Volumes(z, w, m) == [1..z -> Planes(w, m)]
Stacks(z, w, m) == [Tiles -> Volumes(z, w, m)]

\* The voxels of a stack above 0.
Lit(stack) ==
    {v \in (DOMAIN stack) \X (1..NumZ) \X (1..Width) : stack[v[1]][v[2]][v[3]] > 0}

\* The stacks the experiment can hold.
LoadableStacks == {s \in Stacks(NumZ, Width, MaxVal) : Cardinality(Lit(s)) <= MaxLit}

\* ----------------------------------------------------------------- filters

\* The low-pass of a volume, times its number of voxels.  sigma=(1,8,8) is
\* wider than a bounded volume, so the smoothed value is the volume's mean;
\* the sum keeps it an integer.
LowPass(vol) == SumSeq([z \in DOMAIN vol |-> SumSeq(vol[z])])

\* GaussianHighPass: the volume minus its low-pass, negatives clipped to 0
\* (in units of 1/n of an intensity, n the number of voxels).
GaussianHighPass(vol) ==
    LET n == Len(vol) * Len(vol[1])
    IN [z \in DOMAIN vol |-> [p \in DOMAIN vol[z] |->
           Clip0(n * vol[z][p] - LowPass(vol))]]

\* Laplace: the negated discrete second derivative over z and x, negatives
\* clipped to 0, the border extended by its nearest voxel.
Laplace(vol) ==
    LET at(z, p) == vol[Clamp(z, 1, Len(vol))][Clamp(p, 1, Len(vol[1]))]
    IN [z \in DOMAIN vol |-> [p \in DOMAIN vol[z] |->
           Clip0(4 * at(z, p) - at(z, p - 1) - at(z, p + 1)
                              - at(z - 1, p) - at(z + 1, p))]]

ApplyFilter(kind, vol) ==
    IF kind = "GaussianHighPass" THEN GaussianHighPass(vol) ELSE Laplace(vol)

\* Filter.run(stack, in_place): every tile's volume filtered.  The result is a
\* new stack; with in_place the source is overwritten by it.
FilterRun(filter, stack, in_place) ==
    LET out == [t \in DOMAIN stack |-> ApplyFilter(filter.kind, stack[t])]
    IN [ret |-> out, src |-> IF in_place THEN out ELSE stack]

\* A filter's sigma (in tenths) is valid when no component is negative.
ValidSigma(sigma) == \A i \in DOMAIN sigma : sigma[i] >= 0

\* --------------------------------------------------------------- reduction

RECURSIVE ReduceMax(_, _)
ReduceMax(vol, p) ==
    IF Len(vol) = 1 THEN vol[1][p]
    ELSE LET m == ReduceMax(Tail(vol), p)
         IN IF vol[1][p] > m THEN vol[1][p] ELSE m

ReduceSum(vol, p) == SumSeq([z \in DOMAIN vol |-> vol[z][p]])

\* ImageStack.reduce({Axes.ZPLANE}, func): the z axis is removed; each tile
\* keeps one plane whose pixels aggregate the tile's planes at that position.
Reduce(stack, func) ==
    [t \in DOMAIN stack |-> [p \in DOMAIN stack[t][1] |->
        IF func = "max" THEN ReduceMax(stack[t], p)
        ELSE IF func = "sum" THEN ReduceSum(stack[t], p)
        ELSE ReduceSum(stack[t], p) \div Len(stack[t])]]

\* A projected image seen again as a stack of a single z-plane.
AsStack(image) == [t \in DOMAIN image |-> <<image[t]>>]

\* ------------------------------------------------------------- peak finder

Abs(i) == IF i < 0 THEN -i ELSE i

\* Step 1: a pixel is a candidate when it is the maximum of its neighbourhood
\* of min_distance; of equal maxima the first in scan order is kept.
Candidates(img, d) ==
    {p \in DOMAIN img : \A q \in DOMAIN img :
        (q # p /\ Abs(q - p) <= d) => (img[q] < img[p] \/ (img[q] = img[p] /\ q > p))}

\* The connected components of the pixels >= t: maximal runs of a row.
Components(img, t) ==
    LET mask == {p \in DOMAIN img : img[p] >= t}
        run(p) == {q \in mask : \A r \in DOMAIN img :
                      ((p <= r /\ r <= q) \/ (q <= r /\ r <= p)) => r \in mask}
    IN {run(p) : p \in mask}

\* The area filter with its lower comparison turned around.
SurvivorsBelowMin(img, cands, t, minA, maxA) ==
    {c \in Components(img, t) :
        /\ c \cap cands # {}
        /\ Cardinality(c) <= minA
        /\ Cardinality(c) <= maxA}

\* Step 2: the components at threshold t that hold one of the candidates
\* and whose area lies within [min_obj_area, max_obj_area].
Survivors(img, cands, t, minA, maxA) ==
    {c \in Components(img, t) :
        /\ c \cap cands # {}
        /\ minA <= Cardinality(c)
        /\ Cardinality(c) <= maxA}

\* The thresholds swept: from the lowest to the highest intensity of the image.
Thresholds(img) ==
    [i \in 1..(MaxSeq(img) - MinSeq(img) + 1) |-> MinSeq(img) + i - 1]

\* Step 3: the curve of survivor counts, one per threshold.
Curve(img, d, minA, maxA) ==
    LET T == Thresholds(img)
        cands == Candidates(img, d)
    IN [i \in DOMAIN T |-> Cardinality(Survivors(img, cands, T[i], minA, maxA))]

\* The length of the run of equal counts that starts at index i.
RECURSIVE RunLength(_, _)
RunLength(curve, i) ==
    IF i < Len(curve) /\ curve[i + 1] = curve[i]
    THEN 1 + RunLength(curve, i + 1) ELSE 1

RunStarts(curve) == {i \in DOMAIN curve : i = 1 \/ curve[i - 1] # curve[i]}

HasPlateau(curve) == \E i \in RunStarts(curve) : RunLength(curve, i) >= 2

\* Step 4: the start of the longest plateau (the first of equally long ones).
PlateauStart(curve) ==
    CHOOSE i \in RunStarts(curve) :
        \A j \in RunStarts(curve) :
            \/ RunLength(curve, j) < RunLength(curve, i)
            \/ (RunLength(curve, j) = RunLength(curve, i) /\ j >= i)

\* A fallback that selects no threshold.
FallbackNone(curve) == 0

\* Without a plateau: the threshold with the fewest survivors above zero (the
\* first of equal ones), the first threshold when nothing survives anywhere.
FallbackIndex(curve) ==
    LET nz == {i \in DOMAIN curve : curve[i] > 0}
    IN IF nz = {} THEN 1
       ELSE CHOOSE i \in nz : \A j \in nz :
                curve[j] > curve[i] \/ (curve[j] = curve[i] /\ j >= i)

\* The index of the selected threshold; stringency shifts it within the sweep.
SelectIndex(curve, stringency) ==
    IF HasPlateau(curve)
    THEN Clamp(PlateauStart(curve) + stringency, 1, Len(curve))
    ELSE FallbackIndex(curve)

\* The pixels of a set in scan order.
RECURSIVE ScanOrder(_)
ScanOrder(S) ==
    IF S = {} THEN <<>>
    ELSE LET p == CHOOSE x \in S : \A y \in S : x <= y
         IN <<p>> \o ScanOrder(S \ {p})

\* Step 5: the candidates inside the components that survive at threshold t.
PeaksAt(img, d, t, minA, maxA) ==
    LET cands == Candidates(img, d)
    IN ScanOrder(cands \cap UNION Survivors(img, cands, t, minA, maxA))

\* LocalMaxPeakFinder.run on one image: the curve it builds, the index of the
\* threshold it selects and the peaks it returns.  The run fails when no
\* threshold of the sweep is selected.
PeakFinderRun(lmp, img) ==
    LET T == Thresholds(img)
        curve == Curve(img, lmp.min_distance, lmp.min_obj_area, lmp.max_obj_area)
        index == SelectIndex(curve, lmp.stringency)
    IN IF index \in DOMAIN T
       THEN [raised |-> "none", curve |-> curve, index |-> index,
             peaks |-> PeaksAt(img, lmp.min_distance, T[index],
                               lmp.min_obj_area, lmp.max_obj_area)]
       ELSE [raised |-> "ThresholdSelectionAmbiguity", curve |-> curve,
             index |-> index, peaks |-> <<>>]

\* min_obj_area must not exceed max_obj_area, and no parameter is negative.
ValidPeakFinder(lmp) ==
    /\ lmp.min_distance >= 0
    /\ lmp.min_obj_area >= 0
    /\ lmp.min_obj_area <= lmp.max_obj_area

\* The spots of one tile's image, in scan order, with their provenance.
TileSpots(lmp, t, img) ==
    LET ps == PeakFinderRun(lmp, img).peaks
    IN [i \in DOMAIN ps |->
           [x |-> ps[i], intensity |-> img[ps[i]], round |-> t[1], ch |-> t[2]]]

\* LocalMaxPeakFinder.run(image): each (round, channel) searched on its own.
RECURSIVE SpotsFrom(_, _, _)
SpotsFrom(lmp, image, k) ==
    IF k > Len(TileSeq) THEN <<>>
    ELSE TileSpots(lmp, TileSeq[k], image[TileSeq[k]]) \o SpotsFrom(lmp, image, k + 1)

FindSpotsRun(lmp, image) == SpotsFrom(lmp, image, 1)

FindSpotsRaises(lmp, image) ==
    \E t \in DOMAIN image : PeakFinderRun(lmp, image[t]).raised # "none"

\* ----------------------------------------------------------------- decoder

\* The codebook entries of a (round, channel) pair.
CodebookEntries(codebook, r, c) == {e \in codebook : e.round = r /\ e.ch = c}

DecodedRow(spot, feature, target) ==
    [feature |-> feature, x |-> spot.x, intensity |-> spot.intensity,
     round |-> spot.round, ch |-> spot.ch, target |-> target]

\* PerRoundMaxChannel.run(spots) with sequential traces: each spot gets the
\* gene of its (round, channel); a spot without a codebook entry is labelled
\* "unidentified" or, under the drop policy, left out.  Spot k of the
\* SpotSet is feature k of the table.
RECURSIVE DecodeFrom(_, _, _, _)
DecodeFrom(spots, codebook, policy, k) ==
    IF k > Len(spots) THEN <<>>
    ELSE LET es == CodebookEntries(codebook, spots[k].round, spots[k].ch)
             rest == DecodeFrom(spots, codebook, policy, k + 1)
         IN IF es # {}
            THEN <<DecodedRow(spots[k], k, (CHOOSE e \in es : TRUE).target)>> \o rest
            ELSE IF policy = "label"
            THEN <<DecodedRow(spots[k], k, "unidentified")>> \o rest
            ELSE rest

\* Decoding that starts at the second spot.
DecodeSkipFirst(spots, codebook, policy) == DecodeFrom(spots, codebook, policy, 2)

Decode(spots, codebook, policy) == DecodeFrom(spots, codebook, policy, 1)

\* -------------------------------------------------------- benchmark peaks

\* A pandas data frame is held by its columns; this one has no rows.
NoFrame == [y |-> <<>>, x |-> <<>>, selected_peaks_int |-> <<>>]

\* len(frame): the number of rows of a data frame.
FrameLen(frame) == Len(frame.y)

\* get_benchmark_peaks(loaded_results, redo_flag).  Without redo_flag: a table
\* with y from column 0 and x from column 1 of selected_peaks, and
\* selected_peaks_int.  With redo_flag the function calls peaks(...), a name
\* the notebook never defines or imports: NameError.
get_benchmark_peaks(loaded_results, redo_flag) ==
    IF ~redo_flag
    THEN [raised |-> "none",
          sp |-> [y |-> [i \in DOMAIN loaded_results.selected_peaks |->
                           loaded_results.selected_peaks[i][1]],
                  x |-> [i \in DOMAIN loaded_results.selected_peaks |->
                           loaded_results.selected_peaks[i][2]],
                  selected_peaks_int |-> loaded_results.selected_peaks_int]]
    ELSE [raised |-> "NameError", sp |-> NoFrame]

\* ------------------------------------------------------------------- state

VARIABLES
    pc,        \* the statement the notebook is at, "done" or "failed"
    env,       \* the notebook's variables
    bound,     \* the names assigned so far
    produced,  \* the value each stage's input or output had when it was assigned
    calls,     \* the library calls made on image data, in order
    reads,     \* the external reads made, in order
    raised,    \* the exception that ended the run, or "none"
    finder,    \* the peak finder run on its own
    proj,      \* reduce run on its own
    dec,       \* the decoder run on its own
    bench      \* get_benchmark_peaks run on its own

vars == <<pc, env, bound, produced, calls, reads, raised, finder, proj, dec, bench>>
pipeVars == <<pc, env, bound, produced, calls, reads, raised>>

ZeroStack == [t \in Tiles |-> [z \in 1..NumZ |-> [p \in 1..Width |-> 0]]]
ZeroImage == [t \in Tiles |-> [p \in 1..Width |-> 0]]
NoFilter == [kind |-> "none", sigma |-> <<>>, is_volume |-> FALSE]
NoFinder ==
    [min_distance |-> 0, stringency |-> 0, min_obj_area |-> 0,
     max_obj_area |-> 0, is_volume |-> FALSE]
NoDecoder == [codebook |-> {}, trace_building_strategy |-> "none", policy |-> "label"]
NoResults == [selected_peaks |-> <<>>, selected_peaks_int |-> <<>>]

\* The names whose value at assignment is remembered: the chain of the stages.
NothingProduced ==
    [imgs |-> ZeroStack, imgs_ghp |-> ZeroStack, imgs_ghp_laplace |-> ZeroStack,
     mp |-> ZeroImage, spots |-> <<>>]

EmptyEnv ==
    [experiment |-> [codebook |-> {}],
     imgs |-> ZeroStack,
     filter_ghp |-> NoFilter,
     imgs_ghp |-> ZeroStack,
     filter_laplace |-> NoFilter,
     imgs_ghp_laplace |-> ZeroStack,
     mp |-> ZeroImage,
     single_plane |-> ZeroImage[<<0, 0>>],
     single_plane_filtered |-> ZeroImage[<<0, 0>>],
     lmp |-> NoFinder,
     spots |-> <<>>,
     decoder |-> NoDecoder,
     decoded_intensities |-> <<>>,
     benchmark_results |-> NoResults,
     benchmark_peaks |-> NoFrame,
     benchmark_spot_count |-> 0,
     starfish_spot_count |-> 0,
     spot_difference |-> 0]

\* What the outside world can hold.
Codebooks == {{}, {[round |-> 0, ch |-> 0, target |-> "Aldoc"]}}
Policies == {"label", "drop"}
BenchmarkSizes == {ExpectedDifference, ExpectedDifference + 1}
BenchmarkFile(n) ==
    [selected_peaks |-> [i \in 1..n |-> <<i, i + 1>>],
     selected_peaks_int |-> [i \in 1..n |-> 1]]

\* The benchmark cells run before the spot finding cell.
ProgramBenchmarkEarly ==
    <<"L50", "L51", "L77", "L78", "L94", "L95", "L111", "L127", "L128", "L130",
      "L230", "L232", "L167", "L174", "L176", "L178", "L248", "L249", "L251",
      "L266", "L268">>

\* The notebook's statements in cell order, named by their first line.
Program ==
    <<"L50", "L51", "L77", "L78", "L94", "L95", "L111", "L127", "L128", "L130",
      "L167", "L174", "L176", "L178", "L230", "L232", "L248", "L249", "L251",
      "L266", "L268">>

\* The statement after l.
After(l) ==
    LET i == CHOOSE k \in DOMAIN Program : Program[k] = l
    IN IF i = Len(Program) THEN "done" ELSE Program[i + 1]

Assign(name, value) ==
    /\ env' = [env EXCEPT ![name] = value]
    /\ bound' = bound \cup {name}
    /\ produced' = IF name \in DOMAIN produced
                   THEN [produced EXCEPT ![name] = value]
                   ELSE produced

Raise(exception) ==
    /\ pc' = "failed"
    /\ raised' = exception
    /\ UNCHANGED <<env, bound, produced>>

Call(fn, arg, ret, argval) ==
    calls' = Append(calls, [fn |-> fn, arg |-> arg, ret |-> ret, argval |-> argval])

\* A read of what, made after `after` library calls on image data.
Read(what) == reads' = Append(reads, [what |-> what, after |-> Len(calls)])

others == <<finder, proj, dec, bench>>

\* ----------------------------------------------------------------- actions

\* experiment = data.osmFISH(use_test_data=True)
LoadExperiment ==
    /\ pc = "L50"
    /\ Read("experiment")
    /\ \/ \E cb \in Codebooks :
            /\ Assign("experiment", [codebook |-> cb])
            /\ pc' = After("L50")
            /\ UNCHANGED raised
       \/ Raise("IOError")
    /\ UNCHANGED <<calls, others>>

\* imgs = experiment["fov_000"].get_image(FieldOfView.PRIMARY_IMAGES)
GetImage ==
    /\ pc = "L51"
    /\ Read("image")
    /\ \/ \E s \in LoadableStacks :
            /\ Assign("imgs", s)
            /\ pc' = After("L51")
            /\ UNCHANGED raised
       \/ Raise("IOError")
       \/ Raise("ShapeMismatch")
    /\ UNCHANGED <<calls, others>>

\* filter_ghp = Filter.GaussianHighPass(sigma=(1,8,8), is_volume=True)
MakeGaussianHighPass ==
    /\ pc = "L77"
    /\ LET f == [kind |-> "GaussianHighPass", sigma |-> <<10, 80, 80>>,
                 is_volume |-> TRUE]
       IN IF ValidSigma(f.sigma)
          THEN Assign("filter_ghp", f) /\ pc' = After("L77") /\ UNCHANGED raised
          ELSE Raise("ConfigurationError")
    /\ UNCHANGED <<calls, reads, others>>

\* imgs_ghp = filter_ghp.run(imgs, in_place=True)
RunGaussianHighPassInPlace ==
    /\ pc = "L78"
    /\ LET r == FilterRun(env.filter_ghp, env.imgs, TRUE)
       IN /\ env' = [env EXCEPT !.imgs_ghp = r.ret, !.imgs = r.src]
          /\ produced' = [produced EXCEPT !.imgs_ghp = r.ret]
          /\ Call("GaussianHighPass.run", "imgs", "imgs_ghp", env.imgs)
    /\ bound' = bound \cup {"imgs_ghp"}
    /\ pc' = After("L78")
    /\ UNCHANGED <<reads, raised, others>>

\* imgs_ghp = filter_ghp.run(imgs, in_place=False)
RunGaussianHighPass ==
    /\ pc = "L78"
    /\ LET r == FilterRun(env.filter_ghp, env.imgs, FALSE)
       IN /\ env' = [env EXCEPT !.imgs_ghp = r.ret, !.imgs = r.src]
          /\ produced' = [produced EXCEPT !.imgs_ghp = r.ret]
          /\ Call("GaussianHighPass.run", "imgs", "imgs_ghp", env.imgs)
    /\ bound' = bound \cup {"imgs_ghp"}
    /\ pc' = After("L78")
    /\ UNCHANGED <<reads, raised, others>>

\* filter_laplace = Filter.Laplace(sigma=(0.2, 0.5, 0.5), is_volume=True)
MakeLaplace ==
    /\ pc = "L94"
    /\ LET f == [kind |-> "Laplace", sigma |-> <<2, 5, 5>>, is_volume |-> TRUE]
       IN IF ValidSigma(f.sigma)
          THEN Assign("filter_laplace", f) /\ pc' = After("L94") /\ UNCHANGED raised
          ELSE Raise("ConfigurationError")
    /\ UNCHANGED <<calls, reads, others>>

\* imgs_ghp_laplace = filter_laplace.run(imgs, in_place=False)
RunLaplaceOnRaw ==
    /\ pc = "L95"
    /\ LET r == FilterRun(env.filter_laplace, env.imgs, FALSE)
       IN /\ env' = [env EXCEPT !.imgs_ghp_laplace = r.ret, !.imgs = r.src]
          /\ produced' = [produced EXCEPT !.imgs_ghp_laplace = r.ret]
          /\ Call("Laplace.run", "imgs", "imgs_ghp_laplace", env.imgs)
    /\ bound' = bound \cup {"imgs_ghp_laplace"}
    /\ pc' = After("L95")
    /\ UNCHANGED <<reads, raised, others>>

\* imgs_ghp_laplace = filter_laplace.run(imgs_ghp, in_place=False)
RunLaplace ==
    /\ pc = "L95"
    /\ LET r == FilterRun(env.filter_laplace, env.imgs_ghp, FALSE)
       IN /\ env' = [env EXCEPT !.imgs_ghp_laplace = r.ret, !.imgs_ghp = r.src]
          /\ produced' = [produced EXCEPT !.imgs_ghp_laplace = r.ret]
          /\ Call("Laplace.run", "imgs_ghp", "imgs_ghp_laplace", env.imgs_ghp)
    /\ bound' = bound \cup {"imgs_ghp_laplace"}
    /\ pc' = After("L95")
    /\ UNCHANGED <<reads, raised, others>>

\* mp = imgs_ghp_laplace.reduce({Axes.ZPLANE}, func="max")
ReduceZ ==
    /\ pc = "L111"
    /\ LET out == Reduce(env.imgs_ghp_laplace, "max")
       IN /\ Assign("mp", out)
          /\ Call("reduce", "imgs_ghp_laplace", "mp", env.imgs_ghp_laplace)
    /\ pc' = After("L111")
    /\ UNCHANGED <<reads, raised, others>>

\* single_plane = imgs.reduce({Axes.ZPLANE}, func="max").xarray.sel({Axes.CH:0}).squeeze()
ReduceOriginal ==
    /\ pc = "L127"
    /\ LET out == Reduce(env.imgs, "max")
       IN /\ Assign("single_plane", out[<<0, 0>>])
          /\ Call("reduce", "imgs", "single_plane", env.imgs)
    /\ pc' = After("L127")
    /\ UNCHANGED <<reads, raised, others>>

\* single_plane_filtered = mp.xarray.sel({Axes.CH: 0}).squeeze()
SelectFiltered ==
    /\ pc = "L128"
    /\ Assign("single_plane_filtered", env.mp[<<0, 0>>])
    /\ pc' = After("L128")
    /\ UNCHANGED <<calls, reads, raised, others>>

\* plt.figure ... plt.axis('off'): draws single_plane and single_plane_filtered
PlotFiltering ==
    /\ pc = "L130"
    /\ pc' = After("L130")
    /\ UNCHANGED <<env, bound, produced, calls, reads, raised, others>>

\* The finder built with its two area parameters exchanged.
MakePeakFinderAreasSwapped ==
    /\ pc = "L167"
    /\ LET f == [min_distance |-> MinDistance, stringency |-> Stringency,
                 min_obj_area |-> MaxObjArea, max_obj_area |-> MinObjArea,
                 is_volume |-> TRUE]
       IN IF ValidPeakFinder(f)
          THEN Assign("lmp", f) /\ pc' = After("L167") /\ UNCHANGED raised
          ELSE Raise("ConfigurationError")
    /\ UNCHANGED <<calls, reads, others>>

\* lmp = FindSpots.LocalMaxPeakFinder(min_distance=6, stringency=0,
\*                                    min_obj_area=6, max_obj_area=600, is_volume=True)
MakePeakFinder ==
    /\ pc = "L167"
    /\ LET f == [min_distance |-> MinDistance, stringency |-> Stringency,
                 min_obj_area |-> MinObjArea, max_obj_area |-> MaxObjArea,
                 is_volume |-> TRUE]
       IN IF ValidPeakFinder(f)
          THEN Assign("lmp", f) /\ pc' = After("L167") /\ UNCHANGED raised
          ELSE Raise("ConfigurationError")
    /\ UNCHANGED <<calls, reads, others>>

\* spots = lmp.run(mp)
RunPeakFinder ==
    /\ pc = "L174"
    /\ IF FindSpotsRaises(env.lmp, env.mp)
       THEN /\ Raise("ThresholdSelectionAmbiguity")
            /\ Call("LocalMaxPeakFinder.run", "mp", "spots", env.mp)
       ELSE LET out == FindSpotsRun(env.lmp, env.mp)
            IN /\ Assign("spots", out)
               /\ Call("LocalMaxPeakFinder.run", "mp", "spots", env.mp)
               /\ pc' = After("L174")
               /\ UNCHANGED raised
    /\ UNCHANGED <<reads, others>>

\* decoder = DecodeSpots.PerRoundMaxChannel(codebook=experiment.codebook,
\*               trace_building_strategy=TraceBuildingStrategies.SEQUENTIAL)
MakeDecoder ==
    /\ pc = "L176"
    /\ \E policy \in Policies :
          Assign("decoder", [codebook |-> env.experiment.codebook,
                             trace_building_strategy |-> "SEQUENTIAL",
                             policy |-> policy])
    /\ pc' = After("L176")
    /\ UNCHANGED <<calls, reads, raised, others>>

\* decoded_intensities = decoder.run(spots=spots)
RunDecoder ==
    /\ pc = "L178"
    /\ LET out == Decode(env.spots, env.decoder.codebook, env.decoder.policy)
       IN /\ Assign("decoded_intensities", out)
          /\ Call("PerRoundMaxChannel.run", "spots", "decoded_intensities",
                  env.spots)
    /\ pc' = After("L178")
    /\ UNCHANGED <<reads, raised, others>>

\* benchmark_results = load_results(os.path.join(cwd, "data", "...pkl"))
LoadResults ==
    /\ pc = "L230"
    /\ Read("benchmark")
    /\ \/ \E n \in BenchmarkSizes :
            /\ Assign("benchmark_results", BenchmarkFile(n))
            /\ pc' = After("L230")
            /\ UNCHANGED raised
       \/ Raise("IOError")
    /\ UNCHANGED <<calls, others>>

\* benchmark_peaks = get_benchmark_peaks(benchmark_results, redo_flag=False)
CallGetBenchmarkPeaks ==
    /\ pc = "L232"
    /\ LET r == get_benchmark_peaks(env.benchmark_results, FALSE)
       IN IF r.raised = "none"
          THEN Assign("benchmark_peaks", r.sp) /\ pc' = After("L232") /\ UNCHANGED raised
          ELSE Raise(r.raised)
    /\ UNCHANGED <<calls, reads, others>>

\* benchmark_spot_count = len(benchmark_peaks)
CountBenchmark ==
    /\ pc = "L248"
    /\ Assign("benchmark_spot_count", FrameLen(env.benchmark_peaks))
    /\ pc' = After("L248")
    /\ UNCHANGED <<calls, reads, raised, others>>

\* starfish_spot_count = len(decoded_intensities)
CountStarfish ==
    /\ pc = "L249"
    /\ Assign("starfish_spot_count", Len(env.decoded_intensities))
    /\ pc' = After("L249")
    /\ UNCHANGED <<calls, reads, raised, others>>

\* plt.figure ... plt.title: draws benchmark_peaks and decoded_intensities
PlotComparison ==
    /\ pc = "L251"
    /\ pc' = After("L251")
    /\ UNCHANGED <<env, bound, produced, calls, reads, raised, others>>

\* spot_difference = benchmark_spot_count - starfish_spot_count
SpotDifference ==
    /\ pc = "L266"
    /\ Assign("spot_difference", env.benchmark_spot_count - env.starfish_spot_count)
    /\ pc' = After("L266")
    /\ UNCHANGED <<calls, reads, raised, others>>

\* assert spot_difference == 41
AssertDifference ==
    /\ pc = "L268"
    /\ IF env.spot_difference = ExpectedDifference
       THEN pc' = After("L268") /\ UNCHANGED <<env, bound, produced, raised>>
       ELSE Raise("AssertionError")
    /\ UNCHANGED <<calls, reads, others>>

Idle == [pcs |-> "idle"]

Init ==
    /\ pc = "L50"
    /\ env = EmptyEnv
    /\ bound = {}
    /\ produced = NothingProduced
    /\ calls = <<>>
    /\ reads = <<>>
    /\ raised = "none"
    /\ finder = Idle
    /\ proj = Idle
    /\ dec = Idle
    /\ bench = Idle

Next ==
    \/ LoadExperiment
    \/ GetImage
    \/ MakeGaussianHighPass
    \/ RunGaussianHighPass
    \/ MakeLaplace
    \/ RunLaplace
    \/ ReduceZ
    \/ ReduceOriginal
    \/ SelectFiltered
    \/ PlotFiltering
    \/ MakePeakFinder
    \/ RunPeakFinder
    \/ MakeDecoder
    \/ RunDecoder
    \/ LoadResults
    \/ CallGetBenchmarkPeaks
    \/ CountBenchmark
    \/ CountStarfish
    \/ PlotComparison
    \/ SpotDifference
    \/ AssertDifference

Spec == Init /\ [][Next]_vars

\* ---------------------------------------------- the library calls on their own

PipelineOff ==
    /\ pc = "off"
    /\ env = EmptyEnv
    /\ bound = {}
    /\ produced = NothingProduced
    /\ calls = <<>>
    /\ reads = <<>>
    /\ raised = "none"

NoRun == [raised |-> "none", curve |-> <<>>, index |-> 0, peaks |-> <<>>]

FinderParams(minA, maxA) ==
    [min_distance |-> MinDistance, stringency |-> Stringency,
     min_obj_area |-> minA, max_obj_area |-> maxA, is_volume |-> TRUE]

InitFinder ==
    /\ PipelineOff
    /\ \E img \in Planes(FinderWidth, FinderMaxVal) :
       \E a \in 1..FinderMaxArea : \E b \in a..FinderMaxArea :
       \E m \in {FinderMaxArea, FinderWidth} :
          finder = [pcs |-> "start", img |-> img, small |-> a, large |-> b,
                    max |-> m, first |-> NoRun, second |-> NoRun]
    /\ proj = Idle
    /\ dec = Idle
    /\ bench = Idle

\* The finder run with the smaller minimum object area.
FinderRunSmall ==
    /\ finder.pcs = "start"
    /\ finder' = [finder EXCEPT
                    !.first = PeakFinderRun(FinderParams(finder.small, finder.max), finder.img),
                    !.pcs = "first"]
    /\ UNCHANGED <<pipeVars, proj, dec, bench>>

\* The finder run again on the same image, with the larger minimum object area.
FinderRunLarge ==
    /\ finder.pcs = "first"
    /\ finder' = [finder EXCEPT
                    !.second = PeakFinderRun(FinderParams(finder.large, finder.max), finder.img),
                    !.pcs = "both"]
    /\ UNCHANGED <<pipeVars, proj, dec, bench>>

NextFinder == FinderRunSmall \/ FinderRunLarge

SpecFinder == InitFinder /\ [][NextFinder]_vars

\* Stacks of 1..NumZ planes.
ProjStacks == UNION {Stacks(z, Width, MaxVal + 1) : z \in 1..NumZ}

InitProj ==
    /\ PipelineOff
    /\ finder = Idle
    /\ \E s \in ProjStacks :
          proj = [pcs |-> "start", stack |-> s, mp |-> ZeroImage, again |-> ZeroImage]
    /\ dec = Idle
    /\ bench = Idle

\* mp = stack.reduce({Axes.ZPLANE}, func="sum")
ProjReduceSum ==
    /\ proj.pcs = "start"
    /\ proj' = [proj EXCEPT !.mp = Reduce(proj.stack, "sum"), !.pcs = "reduced"]
    /\ UNCHANGED <<pipeVars, finder, dec, bench>>

\* mp = stack.reduce({Axes.ZPLANE}, func="max")
ProjReduce ==
    /\ proj.pcs = "start"
    /\ proj' = [proj EXCEPT !.mp = Reduce(proj.stack, "max"), !.pcs = "reduced"]
    /\ UNCHANGED <<pipeVars, finder, dec, bench>>

\* The projected image, a stack of a single z-plane, projected again.
ProjAgain ==
    /\ proj.pcs = "reduced"
    /\ proj' = [proj EXCEPT !.again = Reduce(AsStack(proj.mp), "max"), !.pcs = "again"]
    /\ UNCHANGED <<pipeVars, finder, dec, bench>>

NextProj == ProjReduce \/ ProjAgain

SpecProj == InitProj /\ [][NextProj]_vars

\* Spots of two channels, and the codebooks that name some of them.
DecSpots == [x : 1..Width, intensity : {1}, round : {0}, ch : {0, 1}]
DecSpotSets == UNION {[1..n -> DecSpots] : n \in 0..MaxSpots}
DecCodebooks ==
    SUBSET {[round |-> 0, ch |-> 0, target |-> "Aldoc"],
            [round |-> 0, ch |-> 1, target |-> "Gad2"]}

InitDec ==
    /\ PipelineOff
    /\ finder = Idle
    /\ proj = Idle
    /\ \E sp \in DecSpotSets : \E cb \in DecCodebooks : \E policy \in Policies :
          dec = [pcs |-> "start", spots |-> sp,
                 decoder |-> [codebook |-> cb,
                              trace_building_strategy |-> "SEQUENTIAL",
                              policy |-> policy],
                 table |-> <<>>]
    /\ bench = Idle

\* decoded_intensities = decoder.run(spots=spots)
DecRun ==
    /\ dec.pcs = "start"
    /\ dec' = [dec EXCEPT
                 !.table = Decode(dec.spots, dec.decoder.codebook, dec.decoder.policy),
                 !.pcs = "decoded"]
    /\ UNCHANGED <<pipeVars, finder, proj, bench>>

NextDec == DecRun

SpecDec == InitDec /\ [][NextDec]_vars

\* Benchmark results of up to MaxPeaks peaks.
BenchResults ==
    UNION {[selected_peaks : [1..n -> (1..Width) \X (1..Width)],
            selected_peaks_int : [1..n -> 0..MaxVal]] : n \in 0..MaxPeaks}

InitBench ==
    /\ PipelineOff
    /\ finder = Idle
    /\ proj = Idle
    /\ dec = Idle
    /\ \E r \in BenchResults : \E flag \in BOOLEAN :
          bench = [pcs |-> "start", loaded_results |-> r, given |-> r,
                   redo_flag |-> flag, out |-> [raised |-> "none", sp |-> NoFrame]]

\* get_benchmark_peaks(loaded_results, redo_flag)
BenchCall ==
    /\ bench.pcs = "start"
    /\ bench' = [bench EXCEPT
                   !.out = get_benchmark_peaks(bench.loaded_results, bench.redo_flag),
                   !.pcs = "returned"]
    /\ UNCHANGED <<pipeVars, finder, proj, dec>>

NextBench == BenchCall

SpecBench == InitBench /\ [][NextBench]_vars

\* ------------------------------------------------------------------ claims

StageOutputs == {"imgs_ghp", "imgs_ghp_laplace", "mp", "spots", "decoded_intensities"}
StageChain == <<"imgs", "imgs_ghp", "imgs_ghp_laplace", "mp", "spots", "decoded_intensities">>
StageFns ==
    <<"GaussianHighPass.run", "Laplace.run", "reduce", "LocalMaxPeakFinder.run",
      "PerRoundMaxChannel.run">>
IsStage(c) == c.ret \in StageOutputs
StageCalls == SelectSeq(calls, IsStage)

\* C2: the stages run in the order background filter, enhancement filter,
\* z-reduction, spot finding, decoding; each is called only once the stage
\* before it has returned, on exactly the value that stage returned (imgs ->
\* imgs_ghp -> imgs_ghp_laplace -> mp -> spots -> decoded_intensities), and a
\* finished run has run all five.
C2_StagesInOrder ==
    /\ Len(StageCalls) <= Len(StageFns)
    /\ \A i \in DOMAIN StageCalls :
          /\ StageCalls[i].fn = StageFns[i]
          /\ StageCalls[i].arg = StageChain[i]
          /\ StageCalls[i].ret = StageChain[i + 1]
          /\ StageCalls[i].ret \in bound
    /\ \A i \in DOMAIN StageCalls :
          StageCalls[i].argval = produced[StageChain[i]]
    /\ pc = "done" => Len(StageCalls) = Len(StageFns)

C2_Witness ==
    /\ pc = "done"
    /\ Len(StageCalls) = 5
    /\ env.spots # <<>>
    /\ env.imgs_ghp # env.imgs

\* C3 as stated: every external read (image stack, benchmark file) is made
\* before any computation on image data has started.
C3_AllReadsBeforeComputation == \A i \in DOMAIN reads : reads[i].after = 0

\* C3 as amended: the experiment and the image stack are read before the first
\* filter runs; the benchmark file is read only after decoding has produced
\* its table, all library calls on image data made; nothing is read twice,
\* and no stage runs before the image stack is read.
C3_ReadsAroundComputation ==
    /\ \A i \in DOMAIN reads :
          /\ reads[i].what \in {"experiment", "image"} => reads[i].after = 0
          /\ reads[i].what = "benchmark" =>
                /\ "decoded_intensities" \in bound
                /\ reads[i].after = Len(StageFns) + 1
    /\ \A i, j \in DOMAIN reads : reads[i].what = reads[j].what => i = j
    /\ calls # <<>> => \E i \in DOMAIN reads : reads[i].what = "image"

C3_Witness ==
    /\ "benchmark_results" \in bound
    /\ \E i \in DOMAIN reads : reads[i].what = "benchmark" /\ reads[i].after > 0

\* The rows a complete table holds for the spots, in order: one per spot, less
\* the spots without a codebook entry under the drop policy.
Matched(spots, codebook) ==
    {k \in DOMAIN spots : CodebookEntries(codebook, spots[k].round, spots[k].ch) # {}}

CompleteTable(table, spots, decoder) ==
    LET kept == IF decoder.policy = "drop" THEN Matched(spots, decoder.codebook)
                ELSE DOMAIN spots
    IN /\ \A k \in kept : Cardinality({i \in DOMAIN table : table[i].feature = k}) = 1
       /\ \A i \in DOMAIN table :
             /\ table[i].feature \in kept
             /\ table[i].x = spots[table[i].feature].x
             /\ table[i].round = spots[table[i].feature].round
             /\ table[i].ch = spots[table[i].feature].ch
             /\ IF table[i].feature \in Matched(spots, decoder.codebook)
                THEN \E e \in decoder.codebook :
                        /\ e.round = table[i].round
                        /\ e.ch = table[i].ch
                        /\ e.target = table[i].target
                ELSE table[i].target = "unidentified"

\* C4 as stated: a run ends with a complete decoded table or with a failure
\* raised before any output exists; a configuration or shape error is raised
\* before any filtering; no codebook mismatch ends the run; the decoded table
\* is never partial.
C4_TableOrEarlyFailure ==
    /\ pc = "failed" => "decoded_intensities" \notin bound
    /\ raised \in {"ConfigurationError", "ShapeMismatch"} => calls = <<>>
    /\ raised # "CodebookMismatch"
    /\ "decoded_intensities" \in bound =>
          CompleteTable(env.decoded_intensities, env.spots, env.decoder)

\* C4 as amended: a run fails either while loading its input (I/O or shape
\* error), before any filtering and before any table exists, or after the
\* complete decoded table exists, in the benchmark comparison (the benchmark
\* file cannot be read, or the assertion on spot_difference fails).  Nothing
\* fails from the first filter to the end of decoding: no configuration error,
\* no threshold selection failure, no codebook mismatch.  The decoded table is
\* never partial, and a finished run has one.
C4_FailsAtLoadOrComparison ==
    /\ pc = "failed" =>
          \/ /\ raised \in {"IOError", "ShapeMismatch"}
             /\ calls = <<>>
             /\ "decoded_intensities" \notin bound
          \/ /\ raised \in {"IOError", "AssertionError"}
             /\ "decoded_intensities" \in bound
    /\ raised \in {"none", "IOError", "ShapeMismatch", "AssertionError"}
    /\ "decoded_intensities" \in bound =>
          CompleteTable(env.decoded_intensities, env.spots, env.decoder)
    /\ pc = "done" => "decoded_intensities" \in bound /\ raised = "none"

C4_Witness ==
    /\ pc = "failed"
    /\ raised = "AssertionError"
    /\ env.spots # <<>>
    /\ env.decoder.codebook = {}
    /\ "decoded_intensities" \in bound

\* C5: every spot of the SpotSet is exactly one row of the decoded table, with
\* its gene or the unidentified marker; under the drop policy the spots left
\* out are exactly those whose (round, channel) has no codebook entry, and
\* their number is the difference of the two lengths.
C5_DecodingComplete ==
    dec.pcs = "decoded" =>
        LET unmatched == DOMAIN dec.spots \ Matched(dec.spots, dec.decoder.codebook)
        IN /\ CompleteTable(dec.table, dec.spots, dec.decoder)
           /\ dec.decoder.policy = "label" =>
                 /\ Len(dec.table) = Len(dec.spots)
                 /\ \A k \in DOMAIN dec.spots :
                       Cardinality({i \in DOMAIN dec.table : dec.table[i].feature = k}) = 1
           /\ dec.decoder.policy = "drop" =>
                 /\ Len(dec.spots) - Len(dec.table) = Cardinality(unmatched)
                 /\ \A i \in DOMAIN dec.table : dec.table[i].feature \notin unmatched

C5_Witness ==
    /\ dec.pcs = "decoded"
    /\ dec.decoder.policy = "drop"
    /\ Len(dec.table) = 2
    /\ Len(dec.spots) = 3
    /\ dec.spots[1].ch = 1
    /\ dec.decoder.codebook = {[round |-> 0, ch |-> 0, target |-> "Aldoc"]}

\* C6: imgs, imgs_ghp, imgs_ghp_laplace and mp each hold, in every later
\* state, the value they held when they were assigned, and single_plane is the
\* max projection of the stack as it was loaded.
C6_InputsNotMutated ==
    /\ \A n \in {"imgs", "imgs_ghp", "imgs_ghp_laplace", "mp"} \cap bound :
          env[n] = produced[n]
    /\ "single_plane" \in bound =>
          env.single_plane = Reduce(produced.imgs, "max")[<<0, 0>>]

C6_Witness ==
    /\ pc = "done"
    /\ env.imgs_ghp # env.imgs
    /\ env.imgs_ghp_laplace # env.imgs_ghp
    /\ env.imgs = produced.imgs

\* C7 as stated: on the same image, the finder run with the larger minimum
\* object area returns no more peaks than the run with the smaller one.
C7_FewerPeaksWithLargerMinArea ==
    finder.pcs = "both" => Len(finder.second.peaks) <= Len(finder.first.peaks)

\* C7 as amended: at every threshold of the sweep the run with the larger
\* minimum object area counts no more survivors than the run with the smaller
\* one, and when both runs select the same threshold it returns no more peaks
\* (its peaks are among the other's).
C7_FewerSurvivorsAtEachThreshold ==
    finder.pcs = "both" =>
        /\ DOMAIN finder.second.curve = DOMAIN finder.first.curve
        /\ \A i \in DOMAIN finder.first.curve :
              finder.second.curve[i] <= finder.first.curve[i]
        /\ finder.second.index = finder.first.index =>
              /\ Len(finder.second.peaks) <= Len(finder.first.peaks)
              /\ \A i \in DOMAIN finder.second.peaks :
                    \E j \in DOMAIN finder.first.peaks :
                        finder.first.peaks[j] = finder.second.peaks[i]

C7_Witness ==
    /\ finder.pcs = "both"
    /\ finder.small < finder.large
    /\ finder.second.index = finder.first.index
    /\ Len(finder.second.peaks) < Len(finder.first.peaks)
    /\ finder.second.peaks # <<>>

\* A curve that falls at every step: no two neighbouring counts are equal.
StrictlyDecreasing(curve) ==
    /\ Len(curve) >= 2
    /\ \A i \in 1..(Len(curve) - 1) : curve[i] > curve[i + 1]

SelectedByRule(run, img) ==
    /\ run.raised = "none"
    /\ run.index \in DOMAIN Thresholds(img)
    /\ ~HasPlateau(run.curve) =>
          \/ run.curve[run.index] > 0 /\ \A j \in DOMAIN run.curve :
                run.curve[j] = 0 \/ run.curve[j] > run.curve[run.index]
                    \/ (run.curve[j] = run.curve[run.index] /\ j >= run.index)
          \/ run.index = 1 /\ \A j \in DOMAIN run.curve : run.curve[j] = 0
    /\ \A i \in DOMAIN run.peaks : run.peaks[i] \in Candidates(img, MinDistance)
    /\ \A i \in 1..(Len(run.peaks) - 1) : run.peaks[i] < run.peaks[i + 1]

C9_MaxProjection ==
    /\ proj.pcs \in {"reduced", "again"} =>
          /\ DOMAIN proj.mp = DOMAIN proj.stack
          /\ \A t \in DOMAIN proj.stack :
                /\ DOMAIN proj.mp[t] = DOMAIN proj.stack[t][1]
                /\ \A p \in DOMAIN proj.mp[t] :
                      /\ \E z \in DOMAIN proj.stack[t] : proj.mp[t][p] = proj.stack[t][z][p]
                      /\ \A z \in DOMAIN proj.stack[t] : proj.mp[t][p] >= proj.stack[t][z][p]
    /\ proj.pcs = "again" => proj.again = proj.mp

C9_Witness ==
    /\ proj.pcs = "again"
    /\ Len(proj.stack[<<0, 0>>]) = NumZ
    /\ proj.stack[<<0, 0>>][1][1] > proj.stack[<<0, 0>>][2][1]
    /\ proj.stack[<<0, 0>>][1][2] < proj.stack[<<0, 0>>][2][2]

\* C10: for either value of redo_flag get_benchmark_peaks raises nothing,
\* returns one row with x and y per benchmark peak and leaves the loaded
\* results as they were; without redo_flag the rows are those of
\* selected_peaks.
C10_BenchmarkPeaksReturned ==
    bench.pcs = "returned" =>
        /\ bench.out.raised = "none"
        /\ bench.loaded_results = bench.given
        /\ ~bench.redo_flag =>
              /\ FrameLen(bench.out.sp) = Len(bench.loaded_results.selected_peaks)
              /\ DOMAIN bench.out.sp.x = DOMAIN bench.out.sp.y
              /\ \A i \in DOMAIN bench.out.sp.y :
                    /\ bench.out.sp.y[i] = bench.loaded_results.selected_peaks[i][1]
                    /\ bench.out.sp.x[i] = bench.loaded_results.selected_peaks[i][2]

====
